---- MODULE Spec2Model ----
(***************************************************************************)
(* Real-time collaborative-session subsystem of abroroo/dine.              *)
(*                                                                         *)
(* Two servers are modelled, as the source has them:                       *)
(*   - registerRoutes (src/server/demo-routes.ts 730-1339): the validated  *)
(*     WebSocket handler over the channel registry `clients`;              *)
(*   - registerDemoRoutes (src/server/demo-routes.ts 1-419): the demo      *)
(*     handler over the room registry `wsConnections`.                     *)
(* Both talk to the Session Store of src/server/storage.ts.                *)
(*                                                                         *)
(* Every `await` on the store is a scheduling point: the handler is split  *)
(* there into the step that issues the call and the step in which the      *)
(* store answers (or fails) and the handler resumes with the answer.       *)
(* Handlers in flight are the records of `tasks`.                          *)
(*                                                                         *)
(* ws.send on a socket whose readyState is not OPEN delivers nothing; the  *)
(* call is recorded with delivered = FALSE.                                *)
(***************************************************************************)
EXTENDS Integers, Sequences, FiniteSets, TLC

\* ------------------------------------------------------------------ bounds
MaxTime == 1          \* the clock runs over 0..MaxTime (units of 4 hours)
MaxMessages == 3       \* frames the server receives in one run
MaxJoins == 2          \* demo join requests in flight at once
MaxTasks == 1         \* message handlers in flight at once
MaxParticipants == 2  \* participant counts a client sends: 1..MaxParticipants
MaxOrders == 1        \* orders created in one run
MaxChannelTasks == 2  \* message handlers in flight at once, where channels are compared
MaxSockets == 7       \* sockets one hook instance creates
MaxQuantity == 2      \* quantities of an order line: 1..MaxQuantity
MaxItems == 2         \* lines of an order request

\* -------------------------------------------------------- program constants
SessionTTL == 1       \* expiresAt = Date.now() + 4 * 60 * 60 * 1000: one clock unit
MinTokenLength == 10  \* authToken.length < 10 is refused
maxReconnectAttempts == 5   \* useWebSocket: reconnects without a reset

\* ------------------------------------------------------------ input domains
Conns == {"c1", "c2"}
SessionKeys == {"k1"}
NoKey == ""                       \* sessionKey absent or "" (falsy)
RestaurantIds == {"demo-restaurant", "other-restaurant"}
NoRestaurant == ""                \* restaurantId absent (falsy)
NoToken == ""                     \* authToken absent or "" (falsy)
Tokens == {"short", "token-of-demo-user", "token-of-other-user"}
Carts == {"cartA", "cartB"}
NoCart == "undefined"             \* cartItems absent
EmptyCart == "[]"                 \* cartData { items: [] } of a new session
NoParticipants == << >>           \* participants absent (undefined)
NoRoom == ""                      \* room absent
DemoEmptyCart == "{}"             \* cartData {} of a session the demo join creates
Room(sessionKey) == "table-" \o sessionKey   \* `table-${sessionKey}`
ParticipantsInputs == {NoParticipants} \cup {<<n>> : n \in 1..MaxParticipants}
Tables == {"t1"}
NULL == "null"

\* Seeded rows: the demo restaurant and its owner.
restaurants == [r \in {"demo-restaurant"} |-> [ownerId |-> "demo-user"]]

\* The identity collaborator: the user a credential was issued to.
TokenPrincipal(authToken) ==
  CASE authToken = "token-of-demo-user" -> "demo-user"
    [] authToken = "token-of-other-user" -> "other-user"
    [] OTHER -> NULL

VARIABLES
  now,            \* current time (new Date()), in hours
  sessions,       \* table_sessions rows, by sessionKey
  clients,        \* registerRoutes: Map<string, Set<WebSocket>>
  wsConnections,  \* registerDemoRoutes: Map<string, Set<WebSocket>>
  readyState,     \* per connection: "NONE", "OPEN", "CLOSING", "CLOSED"
  joins,          \* demo join requests (by request) suspended between read and write
  received,       \* frames received so far
  rejected,       \* history: connections a subscription_rejected was sent to
  tasks,          \* message handlers suspended at an await
  last,           \* the step just taken: its operation, inputs and ws.send calls
  orders,         \* orders rows, by id
  published,      \* the broadcast calls of the latest HTTP route handler run
  joined,         \* history: per session key, the joins that returned it
  resubscribed,   \* history: connections confirmed on a channel they were in
  lastReceived,   \* per connection, the last cart_update the client received
  hook            \* the client: one instance of the useWebSocket effect

vars == <<now, sessions, clients, wsConnections, readyState, tasks, joins, received,
          rejected, last, orders, published, joined, resubscribed, lastReceived, hook>>

\* ---------------------------------------------------------------- messages
Msg(type, key, cartItems, participants, message) ==
  [type |-> type, key |-> key, cartItems |-> cartItems,
   participants |-> participants, message |-> message]

SubscriptionConfirmed(key) ==
  Msg("subscription_confirmed", key, NoCart, NoParticipants, "")
SubscriptionRejected ==
  Msg("subscription_rejected", NoKey, NoCart, NoParticipants,
      "Unauthorized or invalid subscription request")
ErrorMsg(message) == Msg("error", NoKey, NoCart, NoParticipants, message)
CartUpdateMsg(key, cartItems, participants) ==
  Msg("cart_update", key, cartItems, participants, "")
\* The demo server's replies and its cart_update (which names no sessionKey).
RoomJoined(room) == Msg("room-joined", room, NoCart, NoParticipants, "")
Subscribed(sessionKey) == Msg("subscribed", sessionKey, NoCart, NoParticipants, "")
DemoCartUpdateMsg(cartItems, participants) ==
  Msg("cart_update", NoKey, cartItems, participants, "")

\* No message received yet.
NoMsg == Msg("none", NoKey, NoCart, NoParticipants, "")

\* ws.send(msg) on connection c: delivered only while the socket is OPEN.
Send(c, msg) == [to |-> c, msg |-> msg, delivered |-> readyState[c] = "OPEN"]

\* An inbound frame, after JSON.parse and destructuring.
Inbound(type, sessionKey, restaurantId, authToken, cartItems, participants, room) ==
  [type |-> type, sessionKey |-> sessionKey, restaurantId |-> restaurantId,
   authToken |-> authToken, cartItems |-> cartItems, participants |-> participants,
   room |-> room]

\* A subscribe names a session key, or (sessionKey absent) any combination of
\* restaurantId and authToken.
SubscribeFrames ==
  {Inbound("subscribe", k, NoRestaurant, NoToken, NoCart, NoParticipants, NoRoom) :
     k \in SessionKeys}
  \cup
  {Inbound("subscribe", NoKey, r, a, NoCart, NoParticipants, NoRoom) :
     r \in RestaurantIds \cup {NoRestaurant}, a \in Tokens \cup {NoToken}}
CartFrames ==
  {Inbound("cart_update", k, NoRestaurant, NoToken, ci, p, NoRoom) :
     k \in SessionKeys, ci \in Carts, p \in ParticipantsInputs}
  \cup
  {Inbound("cart_update", NoKey, NoRestaurant, NoToken, "cartA", NoParticipants, NoRoom)}
OtherFrames ==
  {Inbound(t, NoKey, NoRestaurant, NoToken, NoCart, NoParticipants, NoRoom) :
     t \in {"unknown", "unparseable"}}
Frames == SubscribeFrames \cup CartFrames \cup OtherFrames

\* The frames sent to the demo server: it reads room, sessionKey, cartItems
\* and participants only.
DemoFrames ==
  {Inbound("join-room", NoKey, NoRestaurant, NoToken, NoCart, NoParticipants, r) :
     r \in {Room(k) : k \in SessionKeys}}
  \cup
  {Inbound("subscribe", k, NoRestaurant, NoToken, NoCart, NoParticipants, NoRoom) :
     k \in SessionKeys}
  \cup
  {Inbound("cart_update", k, NoRestaurant, NoToken, ci, p, NoRoom) :
     k \in SessionKeys, ci \in Carts \cup {NoCart}, p \in ParticipantsInputs}
  \cup OtherFrames

\* The record of the step just taken.
Step(op, conn, frame, sends) ==
  [op |-> op, conn |-> conn, frame |-> frame, sends |-> sends]
NoFrame == Inbound("none", NoKey, NoRestaurant, NoToken, NoCart, NoParticipants, NoRoom)
\* A step that ends no handler and calls no ws.send.
Quiet == Step("-", "", NoFrame, {})

\* A handler suspended at an await: the frame it handles and where it waits.
Task(conn, frame, pc) == [conn |-> conn, frame |-> frame, pc |-> pc]

\* --------------------------------------------------------- Session Store
\* Mutant of getTableSessionFound: lt where the query has gt.
getTableSessionFound_lt(sessionKey) ==
  /\ sessionKey \in DOMAIN sessions
  /\ sessions[sessionKey].expiresAt < now

\* storage.getTableSession: the row with that key whose expires_at > now.
getTableSessionFound(sessionKey) ==
  /\ sessionKey \in DOMAIN sessions
  /\ sessions[sessionKey].expiresAt > now

\* Mutant of SessionAuthorized: the session is looked up with no expiry test.
SessionAuthorized_noExpiry(sessionKey) == sessionKey \in DOMAIN sessions

\* The subscribe handler's test of the session it fetched:
\* session && session.expiresAt > new Date().
SessionAuthorized(sessionKey) ==
  /\ getTableSessionFound(sessionKey)
  /\ sessions[sessionKey].expiresAt > now

\* Mutant of CartSessionInvalid: the cart_update is not validated.
CartSessionInvalid_never(sessionKey) == FALSE

\* The cart_update handler's test of the session it fetched:
\* !session || session.expiresAt <= new Date().
CartSessionInvalid(sessionKey) ==
  \/ ~getTableSessionFound(sessionKey)
  \/ sessions[sessionKey].expiresAt <= now

\* storage.createTableSession: insert one row.
createTableSession(sessionKey, row) == (sessionKey :> row) @@ sessions

\* Mutant of updateTableSessionCart: the cart is written, participants is not.
updateTableSessionCart_cartOnly(sessionKey, cartData, participants) ==
  IF sessionKey \in DOMAIN sessions
  THEN [sessions EXCEPT ![sessionKey].cartData = cartData]
  ELSE sessions

\* storage.updateTableSessionCart: UPDATE ... SET cart_data, participants
\* WHERE session_key = key. An undefined participants leaves the column as it
\* is; no row matching leaves the table as it is.
updateTableSessionCart(sessionKey, cartData, participants) ==
  IF sessionKey \in DOMAIN sessions
  THEN [sessions EXCEPT
          ![sessionKey].cartData = cartData,
          ![sessionKey].participants =
             IF participants = NoParticipants THEN @ ELSE participants[1]]
  ELSE sessions

\* ------------------------------------------------------ Authorization Gate
validateAuthToken(authToken) ==
  IF authToken = NoToken \/ Len(authToken) < MinTokenLength
  THEN NULL
  ELSE NULL   \* "we'll return null to force proper implementation"

\* Mutant of validateRestaurantOwnership: the credential is not looked at.
validateRestaurantOwnership_anyToken(restaurantId, authToken) ==
  restaurantId \in DOMAIN restaurants

validateRestaurantOwnership(restaurantId, authToken) ==
  LET userId == validateAuthToken(authToken) IN
  IF userId = NULL THEN FALSE
  ELSE IF restaurantId \notin DOMAIN restaurants THEN FALSE
  ELSE IF restaurants[restaurantId].ownerId # userId THEN FALSE
  ELSE TRUE

\* -------------------------------------------------------- Channel Registry
\* Mutant of Register: a second registration takes the member out again.
Register_toggle(registry, key, c) ==
  IF key \in DOMAIN registry
  THEN [registry EXCEPT ![key] = IF c \in @ THEN @ \ {c} ELSE @ \cup {c}]
  ELSE (key :> {c}) @@ registry

\* clients.get(key).add(ws), creating the entry when the key is new.
Register(registry, key, c) ==
  IF key \in DOMAIN registry
  THEN [registry EXCEPT ![key] = @ \cup {c}]
  ELSE (key :> {c}) @@ registry

\* Mutant of DeregisterAll: the entries left empty stay in the map.
DeregisterAll_keepEmpty(registry, c) ==
  [k \in DOMAIN registry |-> registry[k] \ {c}]

\* ws.on('close'): delete ws from every set, delete the entries left empty.
DeregisterAll(registry, c) ==
  LET kept == {k \in DOMAIN registry : registry[k] \ {c} # {}} IN
  [k \in kept |-> registry[k] \ {c}]

\* Mutant of CloseSocket: reject and linger.
CloseSocket_linger(c) == readyState

\* ws.close() on connection c: an OPEN socket starts its closing handshake.
CloseSocket(c) == [readyState EXCEPT ![c] = IF @ = "OPEN" THEN "CLOSING" ELSE @]

\* Mutant of broadcast: no readyState test.
broadcast_noReadyStateTest(key, data) ==
  IF key \in DOMAIN clients
  THEN {Send(m, data) : m \in clients[key]}
  ELSE {}

\* Mutant of broadcast: the members of every channel are written to.
broadcast_everyChannel(key, data) ==
  {Send(m, data) : m \in {x \in UNION {clients[k] : k \in DOMAIN clients} :
                             readyState[x] = "OPEN"}}

\* broadcast(key, data): ws.send to every member whose readyState is OPEN.
broadcast(key, data) ==
  IF key \in DOMAIN clients
  THEN {Send(m, data) : m \in {x \in clients[key] : readyState[x] = "OPEN"}}
  ELSE {}

\* ------------------------------------------------ client: useWebSocket
\* The hook's state after its effect has run connect() once: a socket is
\* connecting with the hook's own onopen, no reconnect timer is pending, and
\* the cleanup closure holds the `socket` of the render that created the
\* effect, which is null.
HookAfterEffect ==
  [cleaned |-> FALSE,        \* the effect's cleanup has run
   ws |-> "CONNECTING",      \* readyState of the socket connect() made last
   onopen |-> "hook",        \* whose handler ws.onopen holds
   subscribe |-> "none",     \* the subscribe on this socket: none, sent, confirmed, rejected
   attempts |-> 0,           \* reconnectAttemptsRef.current
   timer |-> FALSE,          \* reconnectTimeoutRef.current is pending
   captured |-> NULL,        \* `socket` as the cleanup closure sees it
   opened |-> 1,             \* sockets created so far
   rejections |-> 0]         \* subscribes rejected since the counter was last reset

\* ------------------------------------------------------------------- Init
Init ==
  /\ now = 0
  /\ sessions = << >>
  /\ clients = << >>
  /\ wsConnections = << >>
  /\ readyState = [c \in Conns |-> "NONE"]
  /\ tasks = {}
  /\ joins = {}
  /\ received = 0
  /\ rejected = {}
  /\ last = Step("Init", "", NoFrame, {})
  /\ orders = << >>
  /\ published = {}
  /\ joined = << >>
  /\ resubscribed = {}
  /\ lastReceived = [c \in Conns |-> NoMsg]
  /\ hook = HookAfterEffect

\* ------------------------------------------------------------ environment
\* Time passes.
Tick ==
  /\ now < MaxTime
  /\ now' = now + 1
  /\ last' = Quiet
  /\ UNCHANGED <<sessions, clients, wsConnections, readyState, tasks, joins, received, rejected, orders, published, joined, resubscribed, lastReceived, hook>>

\* wss.on('connection'): a client connects.
Connect(c) ==
  /\ readyState[c] = "NONE"
  /\ readyState' = [readyState EXCEPT ![c] = "OPEN"]
  /\ last' = Quiet
  /\ UNCHANGED <<now, sessions, clients, wsConnections, tasks, joins, received, rejected, orders, published, joined, resubscribed, lastReceived, hook>>

\* POST /api/tables/:qrCode/join of registerRoutes: a new session each time.
JoinTable(t, sessionKey) ==
  /\ sessionKey \notin DOMAIN sessions
  /\ sessions' = createTableSession(sessionKey,
        [tableId |-> t, participants |-> 1, cartData |-> EmptyCart,
         expiresAt |-> now + SessionTTL])
  /\ joined' = (sessionKey :> 1) @@ joined
  /\ last' = Quiet
  /\ UNCHANGED <<now, clients, wsConnections, readyState, tasks, joins, received, rejected, orders, published, resubscribed, lastReceived, hook>>

\* ------------------------------------------- registerRoutes: ws.on('message')
\* The handler up to its first await (or to its end when it has none).
OnMessage(c, f) ==
  /\ readyState[c] \in {"OPEN", "CLOSING"}
  /\ received < MaxMessages
  /\ received' = received + 1
  /\ UNCHANGED <<now, sessions, wsConnections, joins, orders, published, joined, resubscribed, lastReceived, hook>>
  /\ IF f.type = "unparseable"
     THEN \* JSON.parse throws: the outer catch
          /\ last' = Step("OnMessage", c, f, {Send(c, ErrorMsg("Invalid message format"))})
          /\ UNCHANGED <<clients, readyState, tasks, rejected>>
     ELSE IF f.type = "subscribe" /\ f.sessionKey # NoKey
     THEN \* await storage.getTableSession(sessionKey)
          /\ Task(c, f, "sub_get") \notin tasks
          /\ tasks' = tasks \cup {Task(c, f, "sub_get")}
          /\ last' = Quiet
          /\ UNCHANGED <<clients, readyState, rejected>>
     ELSE IF f.type = "subscribe"
     THEN LET staff == f.restaurantId # NoRestaurant /\ f.authToken # NoToken
              authorized == staff /\ validateRestaurantOwnership(f.restaurantId, f.authToken)
          IN
          IF authorized
          THEN /\ clients' = Register(clients, f.restaurantId, c)
               /\ last' = Step("OnMessage", c, f, {Send(c, SubscriptionConfirmed(f.restaurantId))})
               /\ UNCHANGED <<readyState, tasks, rejected>>
          ELSE /\ last' = Step("OnMessage", c, f, {Send(c, SubscriptionRejected)})
               /\ readyState' = CloseSocket(c)
               /\ rejected' = rejected \cup {c}
               /\ UNCHANGED <<clients, tasks>>
     ELSE IF f.type = "cart_update" /\ f.sessionKey # NoKey
     THEN \* await storage.getTableSession(sessionKey)
          /\ Task(c, f, "cart_get") \notin tasks
          /\ tasks' = tasks \cup {Task(c, f, "cart_get")}
          /\ last' = Quiet
          /\ UNCHANGED <<clients, readyState, rejected>>
     ELSE \* no branch matches: nothing is done, nothing is sent
          /\ last' = Step("OnMessage", c, f, {})
          /\ UNCHANGED <<clients, readyState, tasks, rejected>>

\* The frames whose handler suspends at an await on the store.
Awaits(f) == f.type \in {"subscribe", "cart_update"} /\ f.sessionKey # NoKey

\* A frame arrives while fewer than limit handlers are suspended.
Receive(c, f, limit) ==
  /\ Awaits(f) => Cardinality(tasks) < limit
  /\ OnMessage(c, f)

\* The outer catch of the handler: an awaited store call has thrown.
OuterCatch(t) ==
  /\ tasks' = tasks \ {t}
  /\ last' = Step("OuterCatch", t.conn, t.frame,
                  {Send(t.conn, ErrorMsg("Invalid message format"))})
  /\ UNCHANGED <<now, sessions, clients, wsConnections, readyState, joins, received, rejected, orders, published, joined, resubscribed, lastReceived, hook>>

\* The store fails the getTableSession a handler awaits.
GetTableSessionFails(t) ==
  /\ t \in tasks
  /\ t.pc \in {"sub_get", "cart_get"}
  /\ OuterCatch(t)

\* The store answers the getTableSession of a subscribe, and the handler
\* goes on to its end: authorize and register, or reject and close.
SubscribeResume(t) ==
  /\ t \in tasks
  /\ t.pc = "sub_get"
  /\ tasks' = tasks \ {t}
  /\ UNCHANGED <<now, sessions, wsConnections, joins, received, orders, published, joined, lastReceived, hook>>
  /\ LET c == t.conn
         key == t.frame.sessionKey
     IN
     IF SessionAuthorized(key)
     THEN /\ clients' = Register(clients, key, c)
          /\ resubscribed' = IF key \in DOMAIN clients /\ c \in clients[key]
                              THEN resubscribed \cup {c} ELSE resubscribed
          /\ last' = Step("SubscribeResume", c, t.frame, {Send(c, SubscriptionConfirmed(key))})
          /\ UNCHANGED <<readyState, rejected>>
     ELSE /\ last' = Step("SubscribeResume", c, t.frame, {Send(c, SubscriptionRejected)})
          /\ readyState' = CloseSocket(c)
          /\ rejected' = rejected \cup {c}
          /\ UNCHANGED <<clients, resubscribed>>

\* The store answers the getTableSession of a cart_update, and the handler
\* goes on: the expiry check, then storage.updateTableSessionCart is issued.
CartResume(t) ==
  /\ t \in tasks
  /\ t.pc = "cart_get"
  /\ UNCHANGED <<now, sessions, clients, wsConnections, readyState, joins, received, rejected, orders, published, joined, resubscribed, lastReceived, hook>>
  /\ LET key == t.frame.sessionKey
     IN
     IF CartSessionInvalid(key)
     THEN /\ tasks' = tasks \ {t}
          /\ last' = Step("CartResume", t.conn, t.frame,
                          {Send(t.conn, ErrorMsg("Invalid or expired session"))})
     ELSE /\ tasks' = (tasks \ {t}) \cup {Task(t.conn, t.frame, "cart_upd")}
          /\ last' = Quiet

\* The store executes the updateTableSessionCart of a cart_update.
StoreUpdateCart(t) ==
  /\ t \in tasks
  /\ t.pc = "cart_upd"
  /\ sessions' = updateTableSessionCart(t.frame.sessionKey, t.frame.cartItems,
                                        t.frame.participants)
  /\ tasks' = (tasks \ {t}) \cup {Task(t.conn, t.frame, "upd_ok")}
  /\ last' = Quiet
  /\ UNCHANGED <<now, clients, wsConnections, readyState, joins, received, rejected, orders, published, joined, resubscribed, lastReceived, hook>>

\* The store fails the updateTableSessionCart of a cart_update.
StoreUpdateCartFails(t) ==
  /\ t \in tasks
  /\ t.pc = "cart_upd"
  /\ tasks' = (tasks \ {t}) \cup {Task(t.conn, t.frame, "upd_err")}
  /\ last' = Quiet
  /\ UNCHANGED <<now, sessions, clients, wsConnections, readyState, joins, received, rejected, orders, published, joined, resubscribed, lastReceived, hook>>

\* .then of the update: broadcast the cart to the session's channel.
CartThen(t) ==
  /\ t \in tasks
  /\ t.pc = "upd_ok"
  /\ tasks' = tasks \ {t}
  /\ last' = Step("CartThen", t.conn, t.frame,
                  broadcast(t.frame.sessionKey,
                            CartUpdateMsg(t.frame.sessionKey, t.frame.cartItems,
                                          t.frame.participants)))
  /\ lastReceived' =
       [c \in Conns |->
          IF \E s \in last'.sends : s.to = c /\ s.delivered
          THEN CartUpdateMsg(t.frame.sessionKey, t.frame.cartItems, t.frame.participants)
          ELSE lastReceived[c]]
  /\ UNCHANGED <<now, sessions, clients, wsConnections, readyState, joins, received, rejected, orders, published, joined, resubscribed, hook>>

\* .catch of the update: report the failure to the sender.
CartCatch(t) ==
  /\ t \in tasks
  /\ t.pc = "upd_err"
  /\ tasks' = tasks \ {t}
  /\ last' = Step("CartCatch", t.conn, t.frame,
                  {Send(t.conn, ErrorMsg("Failed to update cart"))})
  /\ UNCHANGED <<now, sessions, clients, wsConnections, readyState, joins, received, rejected, orders, published, joined, resubscribed, lastReceived, hook>>

\* ws.on('close'): the close event of connection c is processed.
CloseEvent(c) ==
  /\ readyState[c] \in {"OPEN", "CLOSING"}
  /\ readyState' = [readyState EXCEPT ![c] = "CLOSED"]
  /\ clients' = DeregisterAll(clients, c)
  /\ last' = Quiet
  /\ UNCHANGED <<now, sessions, wsConnections, tasks, joins, received, rejected, orders, published, joined, resubscribed, lastReceived, hook>>

Next ==
  \/ Tick
  \/ \E c \in Conns : Connect(c)
  \/ \E t \in Tables, k \in SessionKeys : JoinTable(t, k)
  \/ \E c \in Conns, f \in Frames : Receive(c, f, MaxTasks)
  \/ \E t \in tasks : GetTableSessionFails(t)
  \/ \E t \in tasks : SubscribeResume(t)
  \/ \E t \in tasks : CartResume(t)
  \/ \E t \in tasks : StoreUpdateCart(t)
  \/ \E t \in tasks : StoreUpdateCartFails(t)
  \/ \E t \in tasks : CartThen(t)
  \/ \E t \in tasks : CartCatch(t)
  \/ \E c \in Conns : CloseEvent(c)

Spec == Init /\ [][Next]_vars

\* ============================ registerDemoRoutes ===========================
\* storage.getActiveSessionByTableId: the unexpired rows of the table, newest
\* first (createdAt = expiresAt - SessionTTL), limit 1.
ActiveSessionsByTableId(t) ==
  LET live == {k \in DOMAIN sessions :
                 sessions[k].tableId = t /\ sessions[k].expiresAt > now}
  IN {k \in live : \A k2 \in live : sessions[k2].expiresAt <= sessions[k].expiresAt}

\* POST /api/tables/:qrCode/join, up to its write: the table is found and
\* the active session of the table is read.
DemoJoinRead(t) ==
  /\ Cardinality(joins) < MaxJoins
  /\ LET req == CHOOSE n \in 1..MaxJoins : \A j \in joins : j.req # n IN
     \/ /\ ActiveSessionsByTableId(t) = {}
        /\ joins' = joins \cup {[req |-> req, tableId |-> t, sessionKey |-> NoKey,
                                  cartData |-> DemoEmptyCart, participants |-> 0]}
     \/ \E k \in ActiveSessionsByTableId(t) :
          /\ sessions[k].participants < MaxParticipants
          /\ joins' = joins \cup {[req |-> req, tableId |-> t, sessionKey |-> k,
                                    cartData |-> sessions[k].cartData,
                                    participants |-> sessions[k].participants]}
  /\ last' = Quiet
  /\ UNCHANGED <<now, sessions, clients, wsConnections, readyState, tasks, received, rejected, orders, published, joined, resubscribed, lastReceived, hook>>

\* The write of the join: createTableSession when no active session was
\* read, else updateTableSessionCart with (participants || 1) + 1.
DemoJoinWrite(j) ==
  /\ j \in joins
  /\ joins' = joins \ {j}
  /\ IF j.sessionKey = NoKey
     THEN \E k \in SessionKeys \ DOMAIN sessions :
            sessions' = createTableSession(k,
               [tableId |-> j.tableId, participants |-> 1, cartData |-> DemoEmptyCart,
                expiresAt |-> now + SessionTTL])
     ELSE sessions' = updateTableSessionCart(j.sessionKey, j.cartData,
               <<(IF j.participants = 0 THEN 1 ELSE j.participants) + 1>>)
  /\ joined' = [k \in DOMAIN sessions' |->
                 IF k \in DOMAIN joined
                 THEN joined[k] + (IF k = j.sessionKey THEN 1 ELSE 0)
                 ELSE 1]
  /\ last' = Quiet
  /\ UNCHANGED <<now, clients, wsConnections, readyState, tasks, received, rejected, orders, published, resubscribed, lastReceived, hook>>

\* The store fails a call of the join: 500, nothing written.
DemoJoinFails(j) ==
  /\ j \in joins
  /\ joins' = joins \ {j}
  /\ last' = Quiet
  /\ UNCHANGED <<now, sessions, clients, wsConnections, readyState, tasks, received, rejected, orders, published, joined, resubscribed, lastReceived, hook>>

\* The demo broadcast loop: every member of the room but the sender whose
\* readyState is OPEN.
demoBroadcast(room, sender, data) ==
  IF room \in DOMAIN wsConnections
  THEN {Send(m, data) :
          m \in {x \in wsConnections[room] : x # sender /\ readyState[x] = "OPEN"}}
  ELSE {}

\* ws.on('message') of the demo server, up to its await (or to its end).
DemoOnMessage(c, f) ==
  /\ readyState[c] = "OPEN"
  /\ received < MaxMessages
  /\ received' = received + 1
  /\ UNCHANGED <<now, sessions, clients, readyState, joins, rejected, orders, published, joined, resubscribed, lastReceived, hook>>
  /\ IF f.type = "join-room"
     THEN /\ wsConnections' = Register(wsConnections, f.room, c)
          /\ last' = Step("DemoOnMessage", c, f, {Send(c, RoomJoined(f.room))})
          /\ UNCHANGED tasks
     ELSE IF f.type = "subscribe"
     THEN /\ wsConnections' = Register(wsConnections, Room(f.sessionKey), c)
          /\ last' = Step("DemoOnMessage", c, f, {Send(c, Subscribed(f.sessionKey))})
          /\ UNCHANGED tasks
     ELSE IF f.type = "cart_update" /\ f.sessionKey # NoKey /\ f.cartItems # NoCart
     THEN \* await storage.updateTableSessionCart(...)
          /\ Cardinality(tasks) < MaxTasks
          /\ Task(c, f, "demo_upd") \notin tasks
          /\ tasks' = tasks \cup {Task(c, f, "demo_upd")}
          /\ last' = Quiet
          /\ UNCHANGED wsConnections
     ELSE IF f.type = "cart_update"
     THEN \* nothing to store: broadcast at once
          /\ last' = Step("DemoOnMessage", c, f,
                          demoBroadcast(Room(f.sessionKey), c,
                                        DemoCartUpdateMsg(f.cartItems, f.participants)))
          /\ UNCHANGED <<wsConnections, tasks>>
     ELSE \* unparseable (caught and logged) or unknown type: nothing
          /\ last' = Step("DemoOnMessage", c, f, {})
          /\ UNCHANGED <<wsConnections, tasks>>

\* The store executes the update of a demo cart_update (participants || 1).
DemoStoreUpdateCart(t) ==
  /\ t \in tasks
  /\ t.pc = "demo_upd"
  /\ sessions' = updateTableSessionCart(t.frame.sessionKey, t.frame.cartItems,
         IF t.frame.participants = NoParticipants THEN <<1>> ELSE t.frame.participants)
  /\ tasks' = (tasks \ {t}) \cup {Task(t.conn, t.frame, "demo_upd_ok")}
  /\ last' = Quiet
  /\ UNCHANGED <<now, clients, wsConnections, readyState, joins, received, rejected, orders, published, joined, resubscribed, lastReceived, hook>>

\* The store fails the update of a demo cart_update: caught and logged.
DemoStoreUpdateCartFails(t) ==
  /\ t \in tasks
  /\ t.pc = "demo_upd"
  /\ tasks' = (tasks \ {t}) \cup {Task(t.conn, t.frame, "demo_upd_err")}
  /\ last' = Quiet
  /\ UNCHANGED <<now, sessions, clients, wsConnections, readyState, joins, received, rejected, orders, published, joined, resubscribed, lastReceived, hook>>

\* The demo cart_update handler after its try/catch: the broadcast.
DemoCartBroadcast(t) ==
  /\ t \in tasks
  /\ t.pc \in {"demo_upd_ok", "demo_upd_err"}
  /\ tasks' = tasks \ {t}
  /\ last' = Step("DemoCartBroadcast", t.conn, t.frame,
                  demoBroadcast(Room(t.frame.sessionKey), t.conn,
                                DemoCartUpdateMsg(t.frame.cartItems, t.frame.participants)))
  /\ UNCHANGED <<now, sessions, clients, wsConnections, readyState, joins, received, rejected, orders, published, joined, resubscribed, lastReceived, hook>>

\* ws.on('close') of the demo server.
DemoCloseEvent(c) ==
  /\ readyState[c] = "OPEN"
  /\ readyState' = [readyState EXCEPT ![c] = "CLOSED"]
  /\ wsConnections' = DeregisterAll(wsConnections, c)
  /\ last' = Quiet
  /\ UNCHANGED <<now, sessions, clients, tasks, joins, received, rejected, orders, published, joined, resubscribed, lastReceived, hook>>

NextDemo ==
  \/ Tick
  \/ \E c \in Conns : Connect(c)
  \/ \E t \in Tables : DemoJoinRead(t)
  \/ \E j \in joins : DemoJoinWrite(j)
  \/ \E j \in joins : DemoJoinFails(j)
  \/ \E c \in Conns, f \in DemoFrames : DemoOnMessage(c, f)
  \/ \E t \in tasks : DemoStoreUpdateCart(t)
  \/ \E t \in tasks : DemoStoreUpdateCartFails(t)
  \/ \E t \in tasks : DemoCartBroadcast(t)
  \/ \E c \in Conns : DemoCloseEvent(c)

SpecDemo == Init /\ [][NextDemo]_vars

\* ===================== registerRoutes: the HTTP route handlers ==============
\* Seeded rows: the demo tables and menu (prices in cents).
tables == [t \in Tables |-> [restaurantId |-> "demo-restaurant"]]
menuItems ==
  [m \in {"m1", "m2"} |->
     [restaurantId |-> "demo-restaurant",
      price |-> IF m = "m1" THEN 1299 ELSE 399,
      available |-> TRUE]]

AllSessionKeys == SessionKeys \cup {"k2"}   \* keys the join route generates
Users == {"demo-user", "other-user"}        \* req.user.claims.sub
Statuses == <<"received", "preparing", "ready", "completed">>
StatusInputs == {Statuses[i] : i \in DOMAIN Statuses}
OrderId(n) == "o" \o ToString(n)            \* orders.id of the n-th row
\* table_sessions.id: the uuid the database gives the row.
SessionId(sessionKey) == "id-of-" \o sessionKey

\* The lines of an order request: { menuItemId, quantity }.
LineInputs ==
  [menuItemId : DOMAIN menuItems \cup {"m-unknown"}, quantity : 1..MaxQuantity]
  \cup {[menuItemId |-> "m1", quantity |-> 0]}
ItemsInputs ==
  UNION {[1..n -> LineInputs] : n \in 0..MaxItems}
\* The request body of POST /api/orders; totalAmount is a field the client
\* adds on its own.
OrderBodies ==
  [tableId : Tables, restaurantId : RestaurantIds,
   sessionId : {NULL} \cup {SessionId(k) : k \in SessionKeys} \cup SessionKeys,
   items : ItemsInputs, totalAmount : {0, 1}]

RECURSIVE SumOver(_, _)
\* Sum of f[i] for i in 1..n.
SumOver(f, n) == IF n = 0 THEN 0 ELSE f[n] + SumOver(f, n - 1)

\* z.string().uuid(): the row ids are uuids, the session keys the join
\* routes generate are not.
IsUuid(x) == x \in {SessionId(k) : k \in AllSessionKeys}

\* secureOrderSchema.parse: sessionId a uuid or null, items of { menuItemId,
\* quantity >= 1 }; unknown keys (prices, totals) are stripped.
secureOrderSchemaAccepts(body) ==
  /\ body.sessionId = NULL \/ IsUuid(body.sessionId)
  /\ \A i \in DOMAIN body.items : body.items[i].quantity >= 1

\* storage.getMenuItemsByIds: the available rows whose id is in ids.
getMenuItemsByIds(ids) ==
  {m \in DOMAIN menuItems : m \in ids /\ menuItems[m].available}

\* The order items with server-computed pricing: price from the menu row,
\* total = price * quantity.
orderItems(items) ==
  [i \in DOMAIN items |->
     [id |-> items[i].menuItemId,
      price |-> menuItems[items[i].menuItemId].price,
      quantity |-> items[i].quantity,
      total |-> menuItems[items[i].menuItemId].price * items[i].quantity]]

\* let totalAmount = 0; totalAmount += itemTotal (in cents: toFixed(2) of a
\* sum of two-decimal prices is that sum).
totalAmount(items) ==
  SumOver([i \in DOMAIN items |-> orderItems(items)[i].total], Len(items))

\* The app's layers in the order they are registered (app.post, app.put,
\* app.use).
RouteStack ==
  <<"POST /api/tables/:qrCode/join", "PUT /api/sessions/:sessionKey/cart",
    "POST /api/orders", "PUT /api/orders/:id/status", "use req.broadcast">>

\* Express runs the layers in order and a route handler that answers
\* without next() ends the chain: req.broadcast is set only for routes
\* registered after the middleware.
reqBroadcastIsSet(route) ==
  \E i, j \in DOMAIN RouteStack :
    RouteStack[i] = "use req.broadcast" /\ RouteStack[j] = route /\ i < j

\* The order events: the order id is in key, the status in message.
OrderMsg(type, orderId, status) == Msg(type, orderId, NoCart, NoParticipants, status)

\* (req as any).broadcast?.(key, data): the calls made and their ws.sends.
reqBroadcast(route, key, data) ==
  IF reqBroadcastIsSet(route)
  THEN [calls |-> {[key |-> key, msg |-> data]}, sends |-> broadcast(key, data)]
  ELSE [calls |-> {}, sends |-> {}]

\* storage.updateOrderStatus: UPDATE orders SET status WHERE id.
updateOrderStatus(id, status) == [orders EXCEPT ![id].status = status]

\* PUT /api/sessions/:sessionKey/cart.
PutSessionCart(sessionKey, cartData, participants) ==
  /\ sessionKey \in DOMAIN sessions
  /\ sessions' = updateTableSessionCart(sessionKey, cartData, participants)
  /\ last' = Step("PUT /api/sessions/:sessionKey/cart", "",
                  Inbound("put-cart", sessionKey, NoRestaurant, NoToken, cartData,
                          participants, NoRoom), {})
  /\ UNCHANGED <<now, clients, wsConnections, readyState, tasks, joins, received, rejected, orders, published, joined, resubscribed, lastReceived, hook>>

\* POST /api/orders. The rows it reads at its awaits (tables, menu items)
\* are written by no handler here, so the handler is one step; a request it
\* answers with 4xx or 500 changes nothing.
PostOrder(body) ==
  LET ids == {body.items[i].menuItemId : i \in DOMAIN body.items}
      found == getMenuItemsByIds(ids)
      id == OrderId(Cardinality(DOMAIN orders) + 1)
      order == [tableId |-> body.tableId, restaurantId |-> body.restaurantId,
                sessionId |-> body.sessionId,
                items |-> orderItems(body.items),
                totalAmount |-> totalAmount(body.items),
                status |-> "received"]
      pub == reqBroadcast("POST /api/orders", order.restaurantId,
                          OrderMsg("new_order", id, order.status))
  IN
  /\ Cardinality(DOMAIN orders) < MaxOrders
  /\ secureOrderSchemaAccepts(body)
  /\ body.tableId \in DOMAIN tables
  /\ tables[body.tableId].restaurantId = body.restaurantId
  /\ body.sessionId # NULL =>
       /\ getTableSessionFound(body.sessionId)
       /\ sessions[body.sessionId].tableId = body.tableId
       /\ sessions[body.sessionId].expiresAt > now
  /\ Cardinality(found) = Len(body.items)
  /\ \A m \in found : menuItems[m].restaurantId = body.restaurantId
  /\ orders' = (id :> order) @@ orders
  /\ published' = pub.calls
  /\ last' = Step("POST /api/orders", "", NoFrame, pub.sends)
  /\ UNCHANGED <<now, sessions, clients, wsConnections, readyState, tasks, joins, received, rejected, joined, resubscribed, lastReceived, hook>>

\* PUT /api/orders/:id/status behind isAuthenticated and
\* requireOrderOwnership: the order exists and its restaurant is the user's.
PutOrderStatus(user, id, status) ==
  LET order == updateOrderStatus(id, status)[id]
      pubR == reqBroadcast("PUT /api/orders/:id/status", order.restaurantId,
                           OrderMsg("order_update", id, order.status))
      pubS == IF order.sessionId # NULL
              THEN reqBroadcast("PUT /api/orders/:id/status", order.sessionId,
                                OrderMsg("order_status_update", id, order.status))
              ELSE [calls |-> {}, sends |-> {}]
  IN
  /\ id \in DOMAIN orders
  /\ orders[id].restaurantId \in DOMAIN restaurants
  /\ restaurants[orders[id].restaurantId].ownerId = user
  /\ orders' = updateOrderStatus(id, status)
  /\ published' = pubR.calls \cup pubS.calls
  /\ last' = Step("PUT /api/orders/:id/status", "", NoFrame, pubR.sends \cup pubS.sends)
  /\ UNCHANGED <<now, sessions, clients, wsConnections, readyState, tasks, joins, received, rejected, joined, resubscribed, lastReceived, hook>>

\* The order routes next to the customers' subscriptions, the store
\* answering every call.
NextOrders ==
  \/ Tick
  \/ \E c \in Conns : Connect(c)
  \/ \E t \in Tables, k \in SessionKeys : JoinTable(t, k)
  \/ \E body \in OrderBodies : PostOrder(body)
  \/ \E u \in Users, id \in DOMAIN orders, st \in StatusInputs : PutOrderStatus(u, id, st)
  \/ \E c \in Conns, f \in {x \in SubscribeFrames : x.sessionKey # NoKey} : Receive(c, f, MaxTasks)
  \/ \E t \in tasks : SubscribeResume(t)
  \/ \E c \in Conns : CloseEvent(c)

SpecOrders == Init /\ [][NextOrders]_vars

\* The session routes next to the customers' cart updates, the store
\* answering every call.
NextSessions ==
  \/ Tick
  \/ \E c \in Conns : Connect(c)
  \/ \E t \in Tables, k \in AllSessionKeys : JoinTable(t, k)
  \/ \E k \in AllSessionKeys, cd \in Carts, p \in ParticipantsInputs : PutSessionCart(k, cd, p)
  \/ \E c \in Conns, f \in {x \in CartFrames : x.sessionKey # NoKey} : Receive(c, f, MaxTasks)
  \/ \E t \in tasks : CartResume(t)
  \/ \E t \in tasks : StoreUpdateCart(t)
  \/ \E t \in tasks : CartThen(t)
  \/ \E c \in Conns : CloseEvent(c)

SpecSessions == Init /\ [][NextSessions]_vars

\* The frames over every channel key: the customers' subscribe, the staff's
\* subscribe with the owner's and with another user's credential, and
\* cart_update carrying a participant count.
ChannelFrames ==
  {Inbound("subscribe", k, NoRestaurant, NoToken, NoCart, NoParticipants, NoRoom) :
     k \in AllSessionKeys}
  \cup
  {Inbound("subscribe", NoKey, "demo-restaurant", tok, NoCart, NoParticipants, NoRoom) :
     tok \in {"token-of-demo-user", "token-of-other-user"}}
  \cup
  {Inbound("cart_update", k, NoRestaurant, NoToken, ci, <<1>>, NoRoom) :
     k \in AllSessionKeys, ci \in Carts}

\* Several session channels and several handlers in flight, within the
\* sessions' lifetime, the store answering every call.
NextChannels ==
  \/ \E c \in Conns : Connect(c)
  \/ \E t \in Tables, k \in AllSessionKeys : JoinTable(t, k)
  \/ \E c \in Conns, f \in ChannelFrames : Receive(c, f, MaxChannelTasks)
  \/ \E t \in tasks : SubscribeResume(t)
  \/ \E t \in tasks : CartResume(t)
  \/ \E t \in tasks : StoreUpdateCart(t)
  \/ \E t \in tasks : CartThen(t)
  \/ \E c \in Conns : CloseEvent(c)

SpecChannels == Init /\ [][NextChannels]_vars

\* ================== client: useWebSocket and its component ================
\* ws.onopen as the hook assigns it: reconnectAttemptsRef.current = 0. The
\* run of rejections without a reset starts again.
hookOnopen(h) == [h EXCEPT !.attempts = 0, !.rejections = 0]

\* Mutant of componentOnopen: the component's handler is added to the
\* hook's, not put in its place.
componentOnopen_addedToHook(h) == [h EXCEPT !.subscribe = "sent", !.attempts = 0]

\* websocket.onopen as the component assigns it: send the subscribe.
componentOnopen(h) == [h EXCEPT !.subscribe = "sent"]

\* ws.onclose: while attempts < maxReconnectAttempts, count the attempt and
\* schedule connect.
hookOnclose(h) ==
  IF h.attempts < maxReconnectAttempts
  THEN [h EXCEPT !.ws = "CLOSED", !.attempts = @ + 1, !.timer = TRUE]
  ELSE [h EXCEPT !.ws = "CLOSED"]

\* connect(): a new socket with the hook's handlers.
connect(h) ==
  [h EXCEPT !.ws = "CONNECTING", !.onopen = "hook", !.subscribe = "none",
            !.opened = @ + 1]

\* The effect's cleanup: clear the pending timer, close `socket` as the
\* closure holds it - the socket connect() made is closed only when that is
\* the one the closure holds.
cleanup(h) ==
  [h EXCEPT !.cleaned = TRUE, !.timer = FALSE,
            !.ws = IF h.captured = NULL \/ @ = "CLOSED" THEN @ ELSE "CLOSING"]

\* The component's effect on [websocket, sessionKey] runs for the socket
\* the hook returned: websocket.onopen is assigned, in place of the hook's.
ComponentEffect ==
  /\ ~hook.cleaned
  /\ hook.ws \in {"CONNECTING", "OPEN"}
  /\ hook.onopen = "hook"
  /\ hook' = [hook EXCEPT !.onopen = "component"]
  /\ UNCHANGED <<now, sessions, clients, wsConnections, readyState, tasks, joins, received, rejected, last, orders, published, joined, resubscribed, lastReceived>>

\* The socket opens: the handler ws.onopen holds at that moment runs.
SocketOpen ==
  /\ hook.ws = "CONNECTING"
  /\ hook' = [(IF hook.onopen = "hook" THEN hookOnopen(hook) ELSE componentOnopen(hook))
                EXCEPT !.ws = "OPEN"]
  /\ UNCHANGED <<now, sessions, clients, wsConnections, readyState, tasks, joins, received, rejected, last, orders, published, joined, resubscribed, lastReceived>>

\* The server confirms the subscribe.
ServerConfirm ==
  /\ hook.ws = "OPEN"
  /\ hook.subscribe = "sent"
  /\ hook' = [hook EXCEPT !.subscribe = "confirmed"]
  /\ UNCHANGED <<now, sessions, clients, wsConnections, readyState, tasks, joins, received, rejected, last, orders, published, joined, resubscribed, lastReceived>>

\* The server rejects the subscribe and closes: the close event runs
\* ws.onclose.
ServerReject ==
  /\ hook.ws = "OPEN"
  /\ hook.subscribe = "sent"
  /\ hook' = hookOnclose([hook EXCEPT !.subscribe = "rejected", !.rejections = @ + 1])
  /\ UNCHANGED <<now, sessions, clients, wsConnections, readyState, tasks, joins, received, rejected, last, orders, published, joined, resubscribed, lastReceived>>

\* The connection fails or drops, or a close the client started completes:
\* ws.onclose runs.
SocketCloses ==
  /\ hook.ws \in {"CONNECTING", "OPEN", "CLOSING"}
  /\ hook' = hookOnclose(hook)
  /\ UNCHANGED <<now, sessions, clients, wsConnections, readyState, tasks, joins, received, rejected, last, orders, published, joined, resubscribed, lastReceived>>

\* The reconnect timer fires: connect().
TimerFires ==
  /\ hook.timer
  /\ hook.opened < MaxSockets
  /\ hook' = connect([hook EXCEPT !.timer = FALSE])
  /\ UNCHANGED <<now, sessions, clients, wsConnections, readyState, tasks, joins, received, rejected, last, orders, published, joined, resubscribed, lastReceived>>

\* The url changes or the component unmounts: the effect's cleanup runs.
Cleanup ==
  /\ ~hook.cleaned
  /\ hook' = cleanup(hook)
  /\ UNCHANGED <<now, sessions, clients, wsConnections, readyState, tasks, joins, received, rejected, last, orders, published, joined, resubscribed, lastReceived>>

NextClient ==
  \/ ComponentEffect
  \/ SocketOpen
  \/ ServerConfirm
  \/ ServerReject
  \/ SocketCloses
  \/ TimerFires
  \/ Cleanup

SpecClient == Init /\ [][NextClient]_vars

\* ============ registerRoutes, earlier revision: the order routes ============
\* The request body of POST /api/orders as the cart components build it:
\* priced lines and a total computed by the client.
EarlyOrderBodies ==
  [tableId : Tables, restaurantId : {"demo-restaurant"}, sessionId : {NULL},
   items : {orderItems(its) : its \in {x \in ItemsInputs :
               \A i \in DOMAIN x : x[i].menuItemId \in DOMAIN menuItems /\ x[i].quantity >= 1}},
   totalAmount : {0, 1, 399, 1299},
   status : {"received"}]

\* POST /api/orders: insertOrderSchema.parse(req.body), storage.createOrder.
EarlyPostOrder(body) ==
  /\ Cardinality(DOMAIN orders) < MaxOrders
  /\ orders' = (OrderId(Cardinality(DOMAIN orders) + 1) :> body) @@ orders
  /\ last' = Quiet
  /\ UNCHANGED <<now, sessions, clients, wsConnections, readyState, tasks, joins, received, rejected, published, joined, resubscribed, lastReceived, hook>>

\* PUT /api/orders/:id/status behind isAuthenticated.
EarlyPutOrderStatus(id, status) ==
  /\ id \in DOMAIN orders
  /\ orders' = updateOrderStatus(id, status)
  /\ last' = Quiet
  /\ UNCHANGED <<now, sessions, clients, wsConnections, readyState, tasks, joins, received, rejected, published, joined, resubscribed, lastReceived, hook>>

NextEarly ==
  \/ \E body \in EarlyOrderBodies : EarlyPostOrder(body)
  \/ \E id \in DOMAIN orders, st \in StatusInputs : EarlyPutOrderStatus(id, st)

SpecEarly == Init /\ [][NextEarly]_vars

\* ------------------------------------------------------- claim vocabulary
\* The session with this key is active: the row exists and expiresAt > now.
Active(key) == key \in DOMAIN sessions /\ sessions[key].expiresAt > now

\* The channels connection c is a member of.
ChannelsOf(registry, c) == {k \in DOMAIN registry : c \in registry[k]}

\* In this step handler t left the point where it waited.
Resumed(t) == t \in tasks /\ t \notin tasks'

\* In this step the store answered handler t (its call did not fail).
Answered(t) == Resumed(t) /\ last'.op # "OuterCatch"

\* The ws.send calls of the last step that carry msg to connection c.
SentTo(step, c, msg) == {s \in step.sends : s.to = c /\ s.msg = msg}

\* In this step connection c was sent subscription_rejected and closed
\* (ws.close(): an OPEN socket is CLOSING afterwards), and the registry is
\* as before.
RejectedAndClosed(c) ==
  /\ last'.sends = {[to |-> c, msg |-> SubscriptionRejected,
                     delivered |-> readyState[c] = "OPEN"]}
  /\ readyState'[c] # "OPEN"
  /\ clients' = clients

StaffSubscribe(f) ==
  /\ f.type = "subscribe"
  /\ f.sessionKey = NoKey
  /\ f.restaurantId # NoRestaurant
  /\ f.authToken # NoToken

\* The credential belongs to the user that owns the named restaurant.
OwnerCredential(f) ==
  /\ f.restaurantId \in DOMAIN restaurants
  /\ TokenPrincipal(f.authToken) # NULL
  /\ TokenPrincipal(f.authToken) = restaurants[f.restaurantId].ownerId

\* C3: a staff subscribe whose credential does not resolve to the owner of
\* the named restaurant (invalid token, unknown restaurant, another owner) is
\* rejected, and the connection is not a member of the restaurant channel.
C3_NonOwnerStaffRejected ==
  (/\ last.op = "OnMessage"
   /\ StaffSubscribe(last.frame)
   /\ ~OwnerCredential(last.frame))
  => /\ last.sends # {}
     /\ \A s \in last.sends : s.to = last.conn /\ s.msg = SubscriptionRejected
     /\ readyState[last.conn] # "OPEN"
     /\ last.conn \in rejected
     /\ last.frame.restaurantId \notin ChannelsOf(clients, last.conn)

\* C3 witness: a staff subscribe for the demo restaurant with another user's
\* credential has just been rejected.
C3_Witness ==
  /\ last.op = "OnMessage"
  /\ StaffSubscribe(last.frame)
  /\ last.frame.restaurantId \in DOMAIN restaurants
  /\ TokenPrincipal(last.frame.authToken) = "other-user"
  /\ [to |-> last.conn, msg |-> SubscriptionRejected, delivered |-> TRUE] \in last.sends

\* C4: a staff subscribe whose credential is valid and belongs to the owner
\* of the named restaurant is authorized: the connection is registered under
\* the restaurant id and receives subscription_confirmed with that key.
C4_OwnerStaffAuthorized ==
  (/\ last.op = "OnMessage"
   /\ StaffSubscribe(last.frame)
   /\ OwnerCredential(last.frame))
  => /\ last.frame.restaurantId \in ChannelsOf(clients, last.conn)
     /\ SentTo(last, last.conn, SubscriptionConfirmed(last.frame.restaurantId)) # {}

\* C5: a subscribe with neither a session key nor the pair (restaurantId,
\* authToken) is sent subscription_rejected, is closed, and is added to no
\* channel.
C5_IncompleteSubscribeRejected ==
  [][\A c \in Conns :
       (/\ last'.op = "OnMessage" /\ last'.conn = c
        /\ received' = received + 1
        /\ last'.frame.type = "subscribe"
        /\ last'.frame.sessionKey = NoKey
        /\ (last'.frame.restaurantId = NoRestaurant \/ last'.frame.authToken = NoToken))
       => RejectedAndClosed(c)]_vars

\* C5 witness: a subscribe carrying a restaurantId and no authToken has just
\* been rejected and the connection is closing.
C5_Witness ==
  /\ last.op = "OnMessage"
  /\ last.frame.type = "subscribe"
  /\ last.frame.sessionKey = NoKey
  /\ last.frame.restaurantId # NoRestaurant
  /\ last.frame.authToken = NoToken
  /\ [to |-> last.conn, msg |-> SubscriptionRejected, delivered |-> TRUE] \in last.sends
  /\ readyState[last.conn] = "CLOSING"

\* C6: once a connection's subscribe was rejected and its close has been
\* processed, the connection is a member of no channel and nothing is
\* delivered to it.
C6_RejectedNotRegistered ==
  \A c \in rejected :
    readyState[c] = "CLOSED" =>
      /\ ChannelsOf(clients, c) = {}
      /\ \A s \in last.sends : s.to = c => ~s.delivered

\* C7: once a connection's close has been processed and its handlers in
\* flight have finished, the connection is in no channel's member set.
C7_ClosedInNoChannel ==
  \A c \in Conns :
    (readyState[c] = "CLOSED" /\ \A t \in tasks : t.conn # c) =>
      ChannelsOf(clients, c) = {}

\* C8: a cart_update whose session is expired or unknown when the handler
\* checks it is answered with an error to the originating connection only; the
\* store, every channel's membership and the connection's state stay as they
\* are, and the handler ends there (no write is issued, nothing is broadcast).
C8_StaleCartUpdateDiscarded ==
  [][\A t \in tasks :
       (t.pc = "cart_get" /\ Resumed(t) /\ ~Active(t.frame.sessionKey)) =>
         /\ last'.sends # {}
         /\ \A s \in last'.sends : s.to = t.conn /\ s.msg.type = "error"
         /\ sessions' = sessions
         /\ clients' = clients
         /\ readyState' = readyState
         /\ tasks' = tasks \ {t}]_vars

\* C8 witness: a cart_update on an expired session has just been answered
\* with the error, while another connection is a member of that channel.
C8_Witness ==
  /\ last.op = "CartResume"
  /\ last.frame.sessionKey \in DOMAIN sessions
  /\ ~Active(last.frame.sessionKey)
  /\ last.sends = {[to |-> last.conn, msg |-> ErrorMsg("Invalid or expired session"),
                    delivered |-> TRUE]}
  /\ readyState[last.conn] = "OPEN"
  /\ ChannelsOf(clients, last.conn) = {}
  /\ last.frame.sessionKey \in DOMAIN clients

\* C9: the cart_update handler persists first and broadcasts after: a handler
\* reaches its .then only by the store applying its write (the row then holds
\* its cartItems and, when given, its participants); cart_update messages are
\* sent only by that .then, carry the handler's cartItems, participants and
\* sessionKey, and go to exactly the members of the session's channel whose
\* socket is OPEN - every other member included, no disconnected one.
C9_PersistThenBroadcast ==
  [][/\ \A t \in tasks' :
          (t.pc = "upd_ok" /\ t \notin tasks) =>
            /\ Task(t.conn, t.frame, "cart_upd") \in tasks
            /\ sessions'[t.frame.sessionKey].cartData = t.frame.cartItems
            /\ t.frame.participants # NoParticipants =>
                 sessions'[t.frame.sessionKey].participants = t.frame.participants[1]
     /\ (\E s \in last'.sends : s.msg.type = "cart_update") =>
          \E t \in tasks : t.pc = "upd_ok" /\ Resumed(t)
     /\ \A t \in tasks :
          (t.pc = "upd_ok" /\ Resumed(t)) =>
            LET key == t.frame.sessionKey
                payload == CartUpdateMsg(key, t.frame.cartItems, t.frame.participants)
                members == IF key \in DOMAIN clients THEN clients[key] ELSE {}
            IN /\ \A m \in members :
                    readyState[m] = "OPEN" =>
                      [to |-> m, msg |-> payload, delivered |-> TRUE] \in last'.sends
               /\ \A s \in last'.sends :
                    /\ s.msg = payload
                    /\ s.delivered
                    /\ s.to \in members
                    /\ readyState[s.to] = "OPEN"]_vars

\* C9 witness: a cart_update has just been broadcast to another open member
\* of the session's channel while a closed connection still listed in that
\* channel got nothing, and the store holds the broadcast cart.
C9_Witness ==
  /\ last.op = "CartThen"
  /\ \E s \in last.sends :
       /\ s.to # last.conn
       /\ s.delivered
       /\ s.msg.type = "cart_update"
       /\ s.msg.cartItems = last.frame.cartItems
       /\ sessions[last.frame.sessionKey].cartData = s.msg.cartItems

\* C9 witness (second case): the broadcast skipped a member whose socket is
\* no longer open.
C9_WitnessSkipsClosed ==
  /\ last.op = "CartThen"
  /\ last.frame.sessionKey \in DOMAIN clients
  /\ \E m \in clients[last.frame.sessionKey] :
       readyState[m] # "OPEN" /\ \A s \in last.sends : s.to # m

\* C10: when a Session Store call made for a cart_update fails, the failure
\* is reported to the sender as an error message and no cart_update is sent
\* for that mutation.
C10_FailedStoreCallNotBroadcast ==
  [][\A t \in tasks :
       (/\ t.frame.type = "cart_update"
        /\ Resumed(t)
        /\ \/ t.pc \in {"upd_err", "demo_upd_err"}
           \/ last'.op = "OuterCatch")
       => /\ \E s \in last'.sends : s.to = t.conn /\ s.msg.type = "error"
          /\ \A s \in last'.sends : s.msg.type # "cart_update"]_vars

\* C11: when a publish finds a member whose socket is not OPEN, that member
\* is removed from the channel's member set, the publisher is sent no error,
\* and every member whose socket is OPEN still receives the payload.
C11_UnwritableMemberRemoved ==
  [][\A t \in tasks :
       (t.pc = "upd_ok" /\ Resumed(t) /\ t.frame.sessionKey \in DOMAIN clients) =>
         LET key == t.frame.sessionKey
             payload == CartUpdateMsg(key, t.frame.cartItems, t.frame.participants)
         IN /\ \A m \in clients[key] :
                 readyState[m] # "OPEN" =>
                   ~(key \in DOMAIN clients' /\ m \in clients'[key])
            /\ \A m \in clients[key] :
                 readyState[m] = "OPEN" =>
                   [to |-> m, msg |-> payload, delivered |-> TRUE] \in last'.sends
            /\ \A s \in last'.sends : s.msg.type # "error"]_vars

\* A malformed inbound frame: a payload JSON.parse rejects, an unknown type,
\* or a cart_update that names no sessionKey.
Malformed(f) ==
  \/ f.type \in {"unparseable", "unknown"}
  \/ f.type = "cart_update" /\ f.sessionKey = NoKey

\* C12: every malformed inbound frame is answered with an error message on
\* the connection it came from and has no other effect: the connection's
\* state, the channel registry, the Session Store and the handlers in flight
\* are as before.
C12_MalformedFrameReported ==
  [][(/\ last'.op = "OnMessage"
      /\ received' = received + 1
      /\ Malformed(last'.frame))
     => /\ last'.sends # {}
        /\ \A s \in last'.sends : s.to = last'.conn /\ s.msg.type = "error"
        /\ readyState' = readyState
        /\ clients' = clients
        /\ sessions' = sessions
        /\ tasks' = tasks]_vars

\* C13: when POST /api/orders has persisted a new order, a new_order event
\* carrying that order is published to the channel keyed by the order's
\* restaurant id, and every member of that channel whose socket is OPEN is
\* sent it.
C13_NewOrderPublished ==
  [][\A id \in DOMAIN orders' \ DOMAIN orders :
       LET order == orders'[id]
           event == OrderMsg("new_order", id, order.status)
           members == IF order.restaurantId \in DOMAIN clients
                      THEN clients[order.restaurantId] ELSE {}
       IN /\ [key |-> order.restaurantId, msg |-> event] \in published'
          /\ \A m \in members :
               readyState[m] = "OPEN" =>
                 [to |-> m, msg |-> event, delivered |-> TRUE] \in last'.sends]_vars

\* The status events of order id published to channel key in this step.
StatusEvents(key, id) ==
  {e \in published' : e.key = key /\ e.msg.key = id /\ e.msg.message = orders'[id].status}

\* C14: when an order's status is changed, exactly one event carrying the new
\* status is published to the restaurant channel and, when the order has a
\* session id, exactly one to the channel of that table session - the channel
\* keyed by the session key the customers subscribed with - whose open
\* members are sent it.
C14_StatusChangePublished ==
  [][\A id \in DOMAIN orders :
       (id \in DOMAIN orders' /\ orders'[id].status # orders[id].status) =>
         LET order == orders'[id] IN
         /\ Cardinality(StatusEvents(order.restaurantId, id)) = 1
         /\ \A k \in DOMAIN sessions :
              SessionId(k) = order.sessionId =>
                /\ Cardinality(StatusEvents(k, id)) = 1
                /\ \A m \in (IF k \in DOMAIN clients THEN clients[k] ELSE {}) :
                     readyState[m] = "OPEN" =>
                       \E s \in last'.sends :
                         s.to = m /\ s.delivered /\ s.msg.message = order.status]_vars

\* The stage of a status along received, preparing, ready, completed.
Stage(status) == CHOOSE i \in DOMAIN Statuses : Statuses[i] = status

\* C15: the stored status of an order never moves to an earlier stage than
\* the one it has.
C15_StatusMovesForward ==
  [][\A id \in DOMAIN orders :
       id \in DOMAIN orders' => Stage(orders'[id].status) >= Stage(orders[id].status)]_vars

\* C16: the stored totalAmount of every order is the sum over its items of
\* the menu price times the quantity, and the sum of the stored line totals.
C16_TotalIsSumOfMenuPrices ==
  \A id \in DOMAIN orders :
    LET order == orders[id]
        n == Len(order.items)
    IN /\ \A i \in 1..n : order.items[i].id \in DOMAIN menuItems
       /\ order.totalAmount =
            SumOver([i \in 1..n |->
                       menuItems[order.items[i].id].price * order.items[i].quantity], n)
       /\ order.totalAmount = SumOver([i \in 1..n |-> order.items[i].total], n)

\* C17: a join creates a session (participants = 1) only when the table has
\* no active session; when it has one, the join returns that session with
\* participants incremented by one and creates nothing.
C17_JoinReusesActiveSession ==
  [][joined' # joined =>
       \E k \in DOMAIN sessions' :
         LET t == sessions'[k].tableId IN
         IF ActiveSessionsByTableId(t) = {}
         THEN /\ k \notin DOMAIN sessions
              /\ sessions'[k].participants = 1
              /\ joined'[k] = 1
         ELSE /\ k \in ActiveSessionsByTableId(t)
              /\ DOMAIN sessions' = DOMAIN sessions
              /\ sessions'[k].participants = sessions[k].participants + 1
              /\ joined'[k] = joined[k] + 1]_vars

\* The cart mutation the store applies in this step, if any: the WebSocket
\* cart_update whose write is executed, or the PUT of the cart route.
AppliedMutations ==
  {t.frame : t \in {x \in tasks : /\ x.pc = "cart_upd"
                                   /\ x \notin tasks'
                                   /\ Task(x.conn, x.frame, "upd_ok") \in tasks'}}
  \cup
  (IF last'.op = "PUT /api/sessions/:sessionKey/cart" THEN {last'.frame} ELSE {})

C19_NoLostParticipant ==
  (joins = {} /\ tasks = {}) =>
    \A k \in DOMAIN sessions : sessions[k].participants >= joined[k]

\* C20: a successful subscribe of a connection to a channel it is already a
\* member of leaves every member set as it is, and a publish on a channel
\* sends its payload exactly once to a member that subscribed more than once.
C20_RegistrationIdempotent ==
  [][/\ \A t \in tasks :
          (/\ t.pc = "sub_get" /\ Answered(t) /\ Active(t.frame.sessionKey)
           /\ t.frame.sessionKey \in ChannelsOf(clients, t.conn))
          => clients' = clients
     /\ \A t \in tasks :
          (t.pc = "upd_ok" /\ Resumed(t)) =>
            \A c \in resubscribed :
              (t.frame.sessionKey \in ChannelsOf(clients, c) /\ readyState[c] = "OPEN") =>
                Cardinality({s \in last'.sends : s.to = c}) = 1]_vars

\* C20 witness: a connection that subscribed twice to a channel, next to
\* another member, has just been sent exactly one copy of a broadcast.
C20_Witness ==
  /\ last.op = "CartThen"
  /\ \E c \in resubscribed :
       /\ last.frame.sessionKey \in ChannelsOf(clients, c)
       /\ Cardinality({s \in last.sends : s.to = c /\ s.delivered}) = 1

\* C20 witness (second case): a connection has just been confirmed again on
\* a channel that has another member, and both are members.
C20_WitnessTwoMembers ==
  /\ last.op = "SubscribeResume"
  /\ last.conn \in resubscribed
  /\ \E k \in DOMAIN clients : last.conn \in clients[k] /\ Cardinality(clients[k]) = 2

\* C21: once a session has expired (now >= expiresAt), no operation changes
\* its stored cartData or participants: not a cart_update whose expiry check
\* passed before the expiry, not the PUT of the cart route, not a join.
C21_ExpiredSessionFrozen ==
  [][\A k \in DOMAIN sessions :
       sessions[k].expiresAt <= now =>
         /\ k \in DOMAIN sessions'
         /\ sessions'[k].cartData = sessions[k].cartData
         /\ sessions'[k].participants = sessions[k].participants]_vars

\* C26: every channel key present in the registry has a member: an entry
\* is removed in the step that removes its last member.
C26_NoEmptyChannel ==
  \A k \in DOMAIN clients : clients[k] # {}

\* C26 witness: a connection that was the only member of a channel (it had
\* subscribed to it twice) has been closed, and the registry holds no entry.
C26_Witness ==
  \E c \in resubscribed :
    /\ readyState[c] = "CLOSED"
    /\ clients = << >>
    /\ \A c2 \in Conns \ {c} : readyState[c2] = "NONE"

\* C27: every subscribe handler that ends has exactly one outcome: the
\* connection is sent subscription_confirmed and is a member of the channel,
\* or it is sent subscription_rejected and is closed - also when its store
\* lookup fails.
C27_SubscribeHasOneOutcome ==
  [][\A t \in tasks :
       (t.pc = "sub_get" /\ Resumed(t)) =>
         LET c == t.conn
             k == t.frame.sessionKey
         IN
         \/ /\ SentTo(last', c, SubscriptionConfirmed(k)) # {}
            /\ SentTo(last', c, SubscriptionRejected) = {}
            /\ k \in ChannelsOf(clients', c)
         \/ /\ SentTo(last', c, SubscriptionRejected) # {}
            /\ SentTo(last', c, SubscriptionConfirmed(k)) = {}
            /\ readyState'[c] # "OPEN"]_vars

\* Every line of the request names an available menu item of the request's
\* restaurant.
AllItemsOnMenu(body) ==
  \A i \in DOMAIN body.items :
    /\ body.items[i].menuItemId \in DOMAIN menuItems
    /\ menuItems[body.items[i].menuItemId].available
    /\ menuItems[body.items[i].menuItemId].restaurantId = body.restaurantId

\* C28: POST /api/orders, given a well-formed request for a table of the
\* named restaurant and no session id, accepts exactly the requests whose
\* lines all name available menu items of that restaurant - two lines with
\* the same menu item id included.
C28_OrderAcceptedIffItemsOnMenu ==
  \A body \in {b \in OrderBodies : b.sessionId = NULL} :
    (/\ Cardinality(DOMAIN orders) < MaxOrders
     /\ secureOrderSchemaAccepts(body)
     /\ tables[body.tableId].restaurantId = body.restaurantId)
    => ((ENABLED PostOrder(body)) <=> AllItemsOnMenu(body))

\* C29: a table has at most one active session, whatever the interleaving
\* of joins.
C29_OneActiveSessionPerTable ==
  \A t \in Tables :
    Cardinality({k \in DOMAIN sessions :
                   sessions[k].tableId = t /\ sessions[k].expiresAt > now}) <= 1

\* C22: a cart_update is written to the store and broadcast only when its
\* sender is, at that moment, a member of the channel of the session it
\* names.
C22_CartUpdateOnlyFromSubscriber ==
  [][\A t \in tasks :
       (/\ t.pc \in {"cart_upd", "upd_ok"}
        /\ Resumed(t)
        /\ t.pc = "cart_upd" => Task(t.conn, t.frame, "upd_ok") \in tasks')
       => t.frame.sessionKey \in ChannelsOf(clients, t.conn)]_vars

\* C23: a connection becomes a member of channel K only in the step that
\* authorizes it for K (the subscribe to the active session K, or the staff
\* subscribe with the credential of the owner of restaurant K), and a payload
\* published to K is written only to members of K.
C23_ChannelIsolation ==
  [][/\ \A k \in DOMAIN clients' :
          \A c \in clients'[k] \ (IF k \in DOMAIN clients THEN clients[k] ELSE {}) :
            \/ \E t \in tasks :
                 /\ t.pc = "sub_get" /\ Resumed(t)
                 /\ t.conn = c /\ t.frame.sessionKey = k
                 /\ Active(k)
            \/ /\ last'.op = "OnMessage" /\ last'.conn = c
               /\ StaffSubscribe(last'.frame) /\ OwnerCredential(last'.frame)
               /\ last'.frame.restaurantId = k
     /\ \A t \in tasks :
          (t.pc = "upd_ok" /\ Resumed(t)) =>
            \A s \in last'.sends :
              /\ s.msg.key = t.frame.sessionKey
              /\ s.msg.key \in DOMAIN clients
              /\ s.to \in clients[s.msg.key]]_vars

\* C23 witness: a cart update of one session has just been delivered to its
\* member while another open connection, a member of the other session's
\* channel only, was written nothing.
C23_Witness ==
  /\ last.op = "CartThen"
  /\ \E c, d \in Conns :
       /\ c # d
       /\ ChannelsOf(clients, c) = {last.frame.sessionKey}
       /\ ChannelsOf(clients, d) # {}
       /\ last.frame.sessionKey \notin ChannelsOf(clients, d)
       /\ readyState[d] = "OPEN"
       /\ \E s \in last.sends : s.to = c /\ s.delivered
       /\ \A s \in last.sends : s.to # d

\* C25: once no handler is in flight, the last cart_update each open member
\* of a session's channel received carries the cartItems and participants
\* the store holds for that session.
C25_CartConverges ==
  tasks = {} =>
    \A k \in DOMAIN clients :
      \A c \in clients[k] :
        (/\ readyState[c] = "OPEN"
         /\ lastReceived[c].type = "cart_update"
         /\ lastReceived[c].key = k)
        => /\ lastReceived[c].cartItems = sessions[k].cartData
           /\ lastReceived[c].participants = <<sessions[k].participants>>

\* C24: a client whose subscribes are rejected does not retry without
\* bound: the attempt counter never exceeds maxReconnectAttempts, every
\* scheduled reconnect counts one attempt, the counter goes back to 0 only
\* when a socket opens, and the rejections in a row are at most the first
\* one and one per reconnect.
C24_RejectedClientRetriesBounded ==
  [][/\ hook'.attempts <= maxReconnectAttempts
     /\ hook'.rejections <= maxReconnectAttempts + 1
     /\ (hook'.timer /\ ~hook.timer) =>
          (hook.attempts < maxReconnectAttempts /\ hook'.attempts = hook.attempts + 1)
     /\ hook'.opened > hook.opened => (hook.timer /\ hook'.attempts = hook.attempts)
     /\ (hook'.attempts = 0 /\ hook.attempts # 0) =>
          (hook.ws = "CONNECTING" /\ hook'.ws = "OPEN")]_vars

\* C24 witness: the first subscribe and the subscribe after each of the
\* maxReconnectAttempts reconnects were rejected; the last socket is closed
\* and no reconnect is scheduled.
C24_Witness ==
  /\ hook.rejections = maxReconnectAttempts + 1
  /\ hook.attempts = maxReconnectAttempts
  /\ hook.opened = maxReconnectAttempts + 1
  /\ hook.subscribe = "rejected"
  /\ hook.ws = "CLOSED"
  /\ ~hook.timer
  /\ ~hook.cleaned

\* C30: once the hook's cleanup has run, the socket it opened is closed (or
\* closing) and the hook opens no further connection and schedules none.
C30_CleanupClosesAndStops ==
  [][hook'.cleaned =>
       /\ hook'.ws \in {"CLOSING", "CLOSED"}
       /\ hook.cleaned => (hook'.opened = hook.opened /\ ~hook'.timer)]_vars

=============================================================================
